---- MODULE Spec2Model ----
(***************************************************************************)
(* State-machine model of two classes of the control toolbox:              *)
(*   - HPIPMInterface<STATE_DIM, CONTROL_DIM>  (ct_optcon, LQ solver)      *)
(*   - LTISystem<MANIFOLD, CONTROL_DIM, CONT_T> (ct_core)                  *)
(* Scalars are integers (no rounding).  Mathematical vectors are tuples,   *)
(* matrices are tuples of rows.  The std::vector members of the solver are *)
(* functions on 0..size-1, so that an index reads as in the source.        *)
(***************************************************************************)
EXTENDS Integers, Sequences, FiniteSets, TLC

(***************************************************************************)
(* Bounds of the model.                                                    *)
(***************************************************************************)
\* largest horizon a problem handed to the solver has
MaxN == 2
\* largest horizon of the problems whose transcription is examined
MaxStages == 2

(***************************************************************************)
(* Template parameters of the solver instance that is modelled.            *)
(***************************************************************************)
state_dim == 2
control_dim == 1

(***************************************************************************)
(* Eigen arithmetic on fixed-size vectors and matrices.                    *)
(***************************************************************************)
RECURSIVE SumTo(_, _)
SumTo(f, n) == IF n = 0 THEN 0 ELSE f[n] + SumTo(f, n - 1)

\* the tuple <<f[1], ..., f[n]>>, each element evaluated once
RECURSIVE Tup(_, _)
Tup(f, n) == IF n = 0 THEN <<>> ELSE Append(Tup(f, n - 1), f[n])

Dot(a, b) == SumTo(Tup([k \in 1..Len(a) |-> a[k] * b[k]], Len(a)), Len(a))

VAdd(a, b) == Tup([k \in 1..Len(a) |-> a[k] + b[k]], Len(a))

VSub(a, b) == Tup([k \in 1..Len(a) |-> a[k] - b[k]], Len(a))

Rows(M) == Len(M)

Cols(M) == Len(M[1])

Column(M, c) == Tup([r \in 1..Rows(M) |-> M[r][c]], Rows(M))

MatVec(M, v) == Tup([r \in 1..Rows(M) |-> Dot(M[r], v)], Rows(M))

Transpose(M) == Tup([c \in 1..Cols(M) |-> Column(M, c)], Cols(M))

MatMul(M, K) ==
    Tup([r \in 1..Rows(M) |-> Tup([c \in 1..Cols(K) |-> Dot(M[r], Column(K, c))], Cols(K))], Rows(M))

MatAdd(M, K) == Tup([r \in 1..Rows(M) |-> VAdd(M[r], K[r])], Rows(M))

MatSub(M, K) == Tup([r \in 1..Rows(M) |-> VSub(M[r], K[r])], Rows(M))

ZeroVec(n) == Tup([k \in 1..n |-> 0], n)

ZeroMat(n, m) == Tup([r \in 1..n |-> ZeroVec(m)], n)

IdentityMat(n) == Tup([r \in 1..n |-> Tup([c \in 1..n |-> IF r = c THEN 1 ELSE 0], n)], n)

(***************************************************************************)
(* std::vector: resize keeps the first n elements and appends copies of    *)
(* the fill value.                                                         *)
(***************************************************************************)
Size(v) == Cardinality(DOMAIN v)

EmptyVector == [i \in {} |-> 0]

Resize(v, n, fill) == [i \in 0..(n - 1) |-> IF i \in DOMAIN v THEN v[i] ELSE fill]

(***************************************************************************)
(* Raw pointers to double.  A pointer names the storage it points into.     *)
(***************************************************************************)
nullptr == <<"nullptr">>

\* element i of member `field` of the LQOCProblem the caller handed in
ProblemData(field, i) == <<"problem", field, i>>

\* element i of a buffer owned by the solver, or one of its single vectors
Member(buf, i) == <<"solver", buf, i>>

\* what a default-constructed fixed-size Eigen vector holds: no value was
\* ever stored, a read yields whatever the memory held
uninitialized == <<"uninitialized">>

\* a zero-sized block: nothing is copied for it
empty == <<>>

\* a call that returns void, or that is left by an exception, yields no value
noValue == <<"no value">>

(***************************************************************************)
(* LQOCProblem as the solver reads it: getNumberOfStages() and the arrays  *)
(* x_, u_, A_, B_, b_, P_, qv_, Q_, rv_, R_.                               *)
(***************************************************************************)
Stages(p) == 0..(p.numberOfStages - 1)

StagesAndTerminal(p) == 0..p.numberOfStages

(***************************************************************************)
(* The solver object.  Its members are the fields of one record.           *)
(***************************************************************************)
\* the eleven pointer arrays that are only ever resized to N_+1
AuxArrays == {"hd_lb_", "hd_ub_", "hd_lg_", "hd_ug_", "hC_", "hD_", "hidxb_",
              "lam_lb_", "lam_ub_", "lam_lg_", "lam_ug_"}

\* HPIPMInterface(): x0_(nullptr), N_(-1); every container is empty and the
\* native structures qp_, qp_sol_, workspace_ have not been created
\* arg_.iter_max = 20;
iter_max == 20

Constructed ==
    [ N_ |-> -1,
      nx_ |-> EmptyVector, nu_ |-> EmptyVector, nb_ |-> EmptyVector, ng_ |-> EmptyVector,
      hA_ |-> EmptyVector, hB_ |-> EmptyVector, bEigen_ |-> EmptyVector, hb_ |-> EmptyVector,
      hb0_ |-> ZeroVec(state_dim),
      hQ_ |-> EmptyVector, hS_ |-> EmptyVector, hR_ |-> EmptyVector,
      hqEigen_ |-> EmptyVector, hq_ |-> EmptyVector,
      hrEigen_ |-> EmptyVector, hr_ |-> EmptyVector,
      hr0_ |-> ZeroVec(control_dim),
      aux |-> [a \in AuxArrays |-> 0],
      x0_ |-> nullptr,
      u_ |-> EmptyVector, x_ |-> EmptyVector, pi_ |-> EmptyVector,
      hx_ |-> EmptyVector, hpi_ |-> EmptyVector, hu_ |-> EmptyVector,
      qp_ |-> [created |-> FALSE],
      qp_sol_ |-> [created |-> FALSE],
      workspace_ |-> [created |-> FALSE],
      arg_ |-> [iter_max |-> iter_max],
      lqocProblem_ |-> nullptr ]

(***************************************************************************)
(* The native kernel's side of changeNumberOfStages: d_create_ocp_qp,      *)
(* d_create_ocp_qp_sol and d_create_ipm_hard_ocp_qp lay the structures out *)
(* for the dimensions they are given and keep their own copy of them.      *)
(***************************************************************************)
d_create_ocp_qp(N, nx, nu, nb, ng) ==
    [created |-> TRUE, N |-> N, nx |-> nx, nu |-> nu, nb |-> nb, ng |-> ng, loaded |-> FALSE]

d_create_ocp_qp_sol(N, nx, nu) ==
    [created |-> TRUE, N |-> N, nx |-> nx, nu |-> nu, solved |-> FALSE]

\* the workspace keeps the iteration cap of arg; no iteration has run
d_create_ipm_hard_ocp_qp(qp, arg) ==
    [created |-> TRUE, N |-> qp.N, iter_max |-> arg.iter_max, iter |-> 0, converged |-> FALSE]

\* hu_.resize(N_): one control per stage 0..N-1
hu_size(N) == N

\* hx_.resize(N_+1)
hx_size(N) == N + 1

(***************************************************************************)
(* changeNumberOfStages(int N).  The result is the solver afterwards and   *)
(* the exception that left the function, if one did.  N >= -1.             *)
(***************************************************************************)
changeNumberOfStages(s, N) ==
    LET s1 == [s EXCEPT !.N_ = N,
                        !.nx_ = Resize(@, N + 1, state_dim),
                        !.nu_ = Resize(@, N + 1, control_dim),
                        !.nb_ = Resize(@, N + 1, 0),
                        !.ng_ = Resize(@, N + 1, 0)]
        \* from hA_.resize(N_) to hu_.resize(N_)
        s2 == [s1 EXCEPT !.hA_ = Resize(@, N, nullptr),
                         !.hB_ = Resize(@, N, nullptr),
                         !.bEigen_ = Resize(@, N, uninitialized),
                         !.hb_ = Resize(@, N, nullptr),
                         !.hQ_ = Resize(@, N + 1, nullptr),
                         !.hS_ = Resize(@, N + 1, nullptr),
                         !.hR_ = Resize(@, N + 1, nullptr),
                         !.hqEigen_ = Resize(@, N + 1, uninitialized),
                         !.hq_ = Resize(@, N + 1, nullptr),
                         !.hrEigen_ = Resize(@, N + 1, uninitialized),
                         !.hr_ = Resize(@, N + 1, nullptr),
                         !.aux = [a \in AuxArrays |-> N + 1],
                         !.u_ = Resize(@, N + 1, nullptr),
                         !.x_ = Resize(@, N + 1, nullptr),
                         !.pi_ = Resize(@, N, nullptr),
                         !.hx_ = Resize(@, hx_size(N), uninitialized),
                         !.hpi_ = Resize(@, N, uninitialized),
                         !.hu_ = Resize(@, hu_size(N), uninitialized)]
        \* the two loops over i < N_
        s3 == [s2 EXCEPT !.x_ = [i \in DOMAIN @ |-> IF i \in 1..N THEN Member("hx_", i) ELSE @[i]],
                         !.u_ = [i \in DOMAIN @ |-> IF i \in 0..(N - 1) THEN Member("hu_", i) ELSE @[i]],
                         !.pi_ = [i \in DOMAIN @ |-> Member("hpi_", i)]]
        \* nx_[0] = 0;  nu_[N] = 0;
        s4 == [s3 EXCEPT !.nx_[0] = 0, !.nu_[N] = 0]
        qp == d_create_ocp_qp(N, s4.nx_, s4.nu_, s4.nb_, s4.ng_)
        s5 == [s4 EXCEPT !.qp_ = qp,
                         !.qp_sol_ = d_create_ocp_qp_sol(N, s4.nx_, s4.nu_),
                         !.workspace_ = d_create_ipm_hard_ocp_qp(qp, s.arg_)]
    IN  IF N < 0
        THEN \* hA_.resize(N_) is asked for size_t(-1) elements: std::length_error,
             \* after N_ and the four dimension vectors were already changed
             [state |-> s1, thrown |-> "length_error"]
        ELSE [state |-> s5, thrown |-> "none"]

(***************************************************************************)
(* setupHPIPM: the transcription of the affine system and of the LQ cost   *)
(* to the absolute origin.  x, u, A, B, b, P, qv, Q, rv, R are the arrays  *)
(* of the problem p.                                                       *)
(***************************************************************************)
\* a transcription that leaves the control term out of the offset
bEigen_noControl(p, i) ==
    VSub(VAdd(p.b_[i], p.x_[i + 1]), MatVec(p.A_[i], p.x_[i]))

\* bEigen_[i] = b[i] + x[i+1] - A[i]*x[i] - B[i] * u[i];
bEigen(p, i) ==
    VSub(VSub(VAdd(p.b_[i], p.x_[i + 1]), MatVec(p.A_[i], p.x_[i])), MatVec(p.B_[i], p.u_[i]))

\* hb0_ = b[0] + x[1] - B[0] * u[0];
hb0(p) ==
    VSub(VAdd(p.b_[0], p.x_[1]), MatVec(p.B_[0], p.u_[0]))

\* hqEigen_[i] = qv[i] - Q[i]*x[i] - P[i].transpose()*u[i];
hqEigen(p, i) ==
    VSub(VSub(p.qv_[i], MatVec(p.Q_[i], p.x_[i])), MatVec(Transpose(p.P_[i]), p.u_[i]))

\* hrEigen_[i] = rv[i] - R[i]*u[i] - P[i]*x[i];
hrEigen(p, i) ==
    VSub(VSub(p.rv_[i], MatVec(p.R_[i], p.u_[i])), MatVec(p.P_[i], p.x_[i]))

\* hqEigen_[N_] = qv[N_] - Q[N_]*x[N_];
hqEigenTerminal(p, N) ==
    VSub(p.qv_[N], MatVec(p.Q_[N], p.x_[N]))

\* a first-stage gradient without the correction
hr0_uncorrected(hrEigen0, p) == hrEigen0

\* hr0_ = hrEigen_[0] + P[0] * x[0];
hr0(hrEigen0, p) ==
    VAdd(hrEigen0, MatVec(p.P_[0], p.x_[0]))

\* a first entry left pointing at what the loop computed
hb_generic == Member("bEigen_", 0)

\* hb_[0] = hb0_.data();
hb_first == Member("hb0_", 0)

\* hr_[0] = hr0_.data();
hr_first == Member("hr0_", 0)

setupHPIPM(s, p) ==
    LET N == s.N_
        \* first loop, i < N_
        s1 == [s EXCEPT !.x0_ = ProblemData("x_", 0),
                        !.hA_ = [i \in DOMAIN @ |-> IF i < N THEN ProblemData("A_", i) ELSE @[i]],
                        !.hB_ = [i \in DOMAIN @ |-> IF i < N THEN ProblemData("B_", i) ELSE @[i]],
                        !.bEigen_ = [i \in DOMAIN @ |-> IF i < N THEN bEigen(p, i) ELSE @[i]],
                        !.hb_ = [i \in DOMAIN @ |-> IF i < N THEN Member("bEigen_", i) ELSE @[i]]]
        s2 == [s1 EXCEPT !.hb0_ = hb0(p), !.hb_[0] = hb_first]
        \* second loop, i < N_
        s3 == [s2 EXCEPT !.hQ_ = [i \in DOMAIN @ |-> IF i < N THEN ProblemData("Q_", i) ELSE @[i]],
                         !.hS_ = [i \in DOMAIN @ |-> IF i < N THEN ProblemData("P_", i) ELSE @[i]],
                         !.hR_ = [i \in DOMAIN @ |-> IF i < N THEN ProblemData("R_", i) ELSE @[i]],
                         !.hqEigen_ = [i \in DOMAIN @ |-> IF i < N THEN hqEigen(p, i) ELSE @[i]],
                         !.hq_ = [i \in DOMAIN @ |-> IF i < N THEN Member("hqEigen_", i) ELSE @[i]],
                         !.hrEigen_ = [i \in DOMAIN @ |-> IF i < N THEN hrEigen(p, i) ELSE @[i]],
                         !.hr_ = [i \in DOMAIN @ |-> IF i < N THEN Member("hrEigen_", i) ELSE @[i]]]
        \* terminal stage
        s4 == [s3 EXCEPT !.hQ_[N] = ProblemData("Q_", N),
                         !.hS_[N] = nullptr,
                         !.hR_[N] = nullptr,
                         !.hqEigen_[N] = hqEigenTerminal(p, N),
                         !.hq_[N] = Member("hqEigen_", N),
                         !.hr_[N] = nullptr]
        s5 == [s4 EXCEPT !.hr0_ = hr0(s4.hrEigen_[0], p), !.hr_[0] = hr_first]
    IN  IF N = -1
        THEN [state |-> s, thrown |-> "runtime_error"]
        ELSE [state |-> s5, thrown |-> "none"]

\* setProblemImpl: changeNumberOfStages, then setupHPIPM unless the first threw
setProblemImpl(s, p) ==
    LET c == changeNumberOfStages(s, p.numberOfStages)
    IN  IF c.thrown # "none" THEN c ELSE setupHPIPM(c.state, p)

\* LQOCSolver::setProblem, the public entry of the base class: it runs
\* setProblemImpl and then keeps the problem as lqocProblem_
setProblem(s, p) ==
    LET r == setProblemImpl(s, p)
    IN  IF r.thrown # "none" THEN r
        ELSE [state |-> [r.state EXCEPT !.lqocProblem_ = p], thrown |-> "none"]

(***************************************************************************)
(* What a pointer held by the solver reads at the time it is followed.     *)
(***************************************************************************)
Deref(s, ptr) ==
    IF ptr = nullptr THEN <<"invalid read">>
    ELSE IF ptr[1] = "problem" THEN s.lqocProblem_[ptr[2]][ptr[3]]
    ELSE IF ptr[2] \in {"hb0_", "hr0_"} THEN s[ptr[2]]
    ELSE s[ptr[2]][ptr[3]]

(***************************************************************************)
(* solve(): d_cvt_colmaj_to_ocp_qp copies, for the dimensions qp_ was      *)
(* created with, what the pointer arrays point at into qp_; a block with a *)
(* zero dimension is not read.  d_solve_ipm2_hard_ocp_qp then leaves some  *)
(* iterate in qp_sol_.                                                     *)
(***************************************************************************)
d_cvt_colmaj_to_ocp_qp(s) ==
    LET qp == s.qp_
        N == qp.N
        nx == qp.nx
        nu == qp.nu
        Read(cond, ptr) == IF cond THEN Deref(s, ptr) ELSE empty
    IN  [ created |-> TRUE, N |-> N, nx |-> nx, nu |-> nu, nb |-> qp.nb, ng |-> qp.ng,
          loaded |-> TRUE,
          A |-> [i \in 0..(N - 1) |-> Read(nx[i + 1] > 0 /\ nx[i] > 0, s.hA_[i])],
          B |-> [i \in 0..(N - 1) |-> Read(nx[i + 1] > 0 /\ nu[i] > 0, s.hB_[i])],
          b |-> [i \in 0..(N - 1) |-> Read(nx[i + 1] > 0, s.hb_[i])],
          Q |-> [i \in 0..N |-> Read(nx[i] > 0, s.hQ_[i])],
          S |-> [i \in 0..N |-> Read(nu[i] > 0 /\ nx[i] > 0, s.hS_[i])],
          R |-> [i \in 0..N |-> Read(nu[i] > 0, s.hR_[i])],
          q |-> [i \in 0..N |-> Read(nx[i] > 0, s.hq_[i])],
          r |-> [i \in 0..N |-> Read(nu[i] > 0, s.hr_[i])] ]

\* the iterates examined: the state and the control that every stage holds
SolIterates == { <<<<0, 0>>, <<0>>>>, <<<<2, -1>>, <<-2>>>> }

SolStates == {it[1] : it \in SolIterates}

SolControls == {it[2] : it \in SolIterates}

\* the iteration counts examined: one iteration, and the cap
IterationCounts(ws) == {1, ws.iter_max}

\* d_solve_ipm2_hard_ocp_qp: what the kernel may leave in qp_sol_ and in the
\* workspace for the dimensions of qp: a state where nx[i] > 0, a control
\* where nu[i] > 0, one multiplier per stage transition; the number of
\* iterations run, which the loop of the kernel keeps at iter_max or below,
\* and whether the residual reached mu_max: the loop ends before the cap
\* only if it did
d_solve_ipm2_hard_ocp_qp(qp, ws) ==
    { [ sol |-> [created |-> TRUE, N |-> qp.N, nx |-> qp.nx, nu |-> qp.nu, solved |-> TRUE,
                 x |-> [i \in 0..qp.N |-> IF qp.nx[i] = 0 THEN empty ELSE it[1]],
                 u |-> [i \in 0..qp.N |-> IF qp.nu[i] = 0 THEN empty ELSE it[2]],
                 pi |-> [i \in 0..(qp.N - 1) |-> <<"pi", i>>]],
        workspace |-> [ws EXCEPT !.iter = run[1], !.converged = run[2]] ] :
      it \in SolIterates,
      run \in {kc \in IterationCounts(ws) \X BOOLEAN : kc[1] < ws.iter_max => kc[2]} }

(***************************************************************************)
(* d_cvt_ocp_qp_sol_to_colmaj: copies the iterate of qp_sol_ to where the  *)
(* pointer arrays u_, x_, pi_ point; a stage whose dimension is zero is    *)
(* not written.  Before any solve the memory of qp_sol_ holds no iterate.  *)
(***************************************************************************)
d_cvt_ocp_qp_sol_to_colmaj(s) ==
    LET sol == s.qp_sol_
        Iterate(part, i) == IF sol.solved THEN sol[part][i] ELSE uninitialized
        Written(buf, j, ptrs, dims, part) ==
            {i \in DOMAIN ptrs \cap 0..sol.N : dims[i] > 0 /\ ptrs[i] = Member(buf, j)}
        Copy(buf, ptrs, dims, part) ==
            [j \in DOMAIN s[buf] |->
                IF Written(buf, j, ptrs, dims, part) # {}
                THEN Iterate(part, CHOOSE i \in Written(buf, j, ptrs, dims, part) : TRUE)
                ELSE s[buf][j]]
    IN  [s EXCEPT !.hu_ = Copy("hu_", s.u_, sol.nu, "u"),
                  !.hx_ = Copy("hx_", s.x_, sol.nx, "x"),
                  !.hpi_ = [j \in DOMAIN @ |-> IF j < sol.N THEN Iterate("pi", j) ELSE @[j]]]

\* getSolutionState without its second statement
hx_unpatched(s) == s

\* hx_[0] = this->lqocProblem_->x_[0];
hx_initial(s) == [s EXCEPT !.hx_[0] = s.lqocProblem_.x_[0]]

\* getSolutionState: the solver afterwards and the array returned
getSolutionState(s) ==
    LET s1 == hx_initial(d_cvt_ocp_qp_sol_to_colmaj(s))
    IN  [state |-> s1, value |-> s1.hx_]

\* getSolutionControl
getSolutionControl(s) ==
    LET s1 == d_cvt_ocp_qp_sol_to_colmaj(s)
    IN  [state |-> s1, value |-> s1.hu_]

\* a getFeedback that returns a zero-filled array instead of throwing
getFeedback_zeros(s) == [state |-> s, thrown |-> "none", value |-> [i \in 0..(s.N_ - 1) |-> 0]]

\* getFeedback: throw std::runtime_error("not implemented")
getFeedback(s) == [state |-> s, thrown |-> "runtime_error", value |-> noValue]

(***************************************************************************)
(* LTISystem<MANIFOLD, CONTROL_DIM, CONT_T>: the members A_, B_, C_, D_    *)
(* and the template parameters of the instance that is modelled.          *)
(***************************************************************************)
STATE_DIM == 2
CONTROL_DIM == 2

\* M.block<nr, nc>(r0, c0), offsets counted from 0
Block(M, r0, c0, nr, nc) ==
    Tup([r \in 1..nr |-> Tup([c \in 1..nc |-> M[r0 + r][c0 + c]], nc)], nr)

\* M.block<nr, nc>(r0, c0) = blk
SetBlock(M, r0, c0, blk) ==
    Tup([r \in 1..Rows(M) |-> Tup([c \in 1..Cols(M) |->
        IF (r - r0) \in 1..Rows(blk) /\ (c - c0) \in 1..Cols(blk)
        THEN blk[r - r0][c - c0]
        ELSE M[r][c]], Cols(M))], Rows(M))

\* a matrix that was declared and not assigned
UninitializedMat(n, m) == Tup([r \in 1..n |-> Tup([c \in 1..m |-> "uninitialized"], m)], n)

\* the loop of computeControllabilityMatrix, from i on
RECURSIVE ControllabilityLoop(_, _, _)
ControllabilityLoop(sys, CO, i) ==
    IF i < STATE_DIM
    THEN ControllabilityLoop(sys,
             SetBlock(CO, 0, i * CONTROL_DIM,
                      MatMul(sys.A_, Block(CO, 0, (i - 1) * CONTROL_DIM, STATE_DIM, CONTROL_DIM))),
             i + 1)
    ELSE CO

\* computeControllabilityMatrix(CO): CO as the call leaves it
computeControllabilityMatrix(sys, CO) ==
    ControllabilityLoop(sys, SetBlock(CO, 0, 0, sys.B_), 1)

Abs(a) == IF a < 0 THEN -a ELSE a

(***************************************************************************)
(* Eigen::FullPivLU::rank(): elimination with complete pivoting; the rank  *)
(* is the number of nonzero pivots.  On integers the elimination is done   *)
(* without division: the rows below are scaled by the pivot.               *)
(***************************************************************************)
Entries(M) == {<<r, c>> : r \in 1..Rows(M), c \in 1..Cols(M)}

RECURSIVE FullPivLURank(_)
FullPivLURank(M) ==
    IF Rows(M) = 0 \/ \A e \in Entries(M) : M[e[1]][e[2]] = 0
    THEN 0
    ELSE LET piv == CHOOSE e \in Entries(M) :
                        \A f \in Entries(M) : Abs(M[e[1]][e[2]]) >= Abs(M[f[1]][f[2]])
             pr == piv[1]
             pc == piv[2]
             Reduced(k) == Tup([c \in 1..Cols(M) |-> M[pr][pc] * M[k][c] - M[k][pc] * M[pr][c]],
                               Cols(M))
             rest == Tup([k \in 1..(Rows(M) - 1) |-> Reduced(IF k < pr THEN k ELSE k + 1)],
                         Rows(M) - 1)
         IN  1 + FullPivLURank(rest)

\* a rank test that reads the first block only
isControllable_firstBlock(sys) ==
    FullPivLURank(sys.B_) = STATE_DIM

\* isControllable()
isControllable(sys) ==
    LET CO == computeControllabilityMatrix(sys, UninitializedMat(STATE_DIM, STATE_DIM * CONTROL_DIM))
    IN  FullPivLURank(CO) = STATE_DIM

(***************************************************************************)
(* computeObservabilityMatrix and isObservable.  The destination block of  *)
(* the loop starts at row i*STATE_DIM of a matrix of STATE_DIM rows.  What *)
(* block<>() does with a block outside the matrix depends on the build:    *)
(* with Eigen's assertions (the default) it aborts the process; with       *)
(* NDEBUG or EIGEN_NO_DEBUG it addresses the column-major storage as if    *)
(* the block were inside.                                                  *)
(***************************************************************************)
Builds == {"assertions", "no_assertions"}

\* the block (r0, c0) of nr x nc lies inside M: the condition block<>() asserts
InBounds(M, r0, c0, nr, nc) ==
    r0 >= 0 /\ c0 >= 0 /\ r0 + nr <= Rows(M) /\ c0 + nc <= Cols(M)

\* M.block<>(r0, c0) = blk without the assertion: coefficient (i, j) of the
\* block goes to the address (r0 + i) + (c0 + j) * rows of the storage of M;
\* an address past the storage is outside the object and is not part of M
StorageWrite(M, r0, c0, blk) ==
    LET R == Rows(M)
        Src(r, c) == {e \in Entries(blk) :
                         (r0 + e[1] - 1) + (c0 + e[2] - 1) * R = (r - 1) + (c - 1) * R}
    IN  Tup([r \in 1..R |-> Tup([c \in 1..Cols(M) |->
            IF Src(r, c) # {}
            THEN LET e == CHOOSE e \in Src(r, c) : TRUE IN blk[e[1]][e[2]]
            ELSE M[r][c]], Cols(M))], R)

\* the coefficients of M that StorageWrite assigns
StorageTargets(M, r0, c0, blk) ==
    {t \in Entries(M) : \E e \in Entries(blk) :
        (r0 + e[1] - 1) + (c0 + e[2] - 1) * Rows(M) = (t[1] - 1) + (t[2] - 1) * Rows(M)}

\* the loop of computeObservabilityMatrix, from i on; st holds the matrix,
\* the coefficients assigned so far, whether the process was aborted and
\* whether a block left the bounds
RECURSIVE ObservabilityLoop(_, _, _, _)
ObservabilityLoop(sys, st, i, build) ==
    IF i >= STATE_DIM \/ st.aborted THEN st
    ELSE LET inside == /\ InBounds(st.O, i * STATE_DIM, 0, STATE_DIM, STATE_DIM)
                       /\ InBounds(st.O, 0, (i - 1) * STATE_DIM, STATE_DIM, STATE_DIM)
             product == MatMul(Block(st.O, 0, (i - 1) * STATE_DIM, STATE_DIM, STATE_DIM), sys.A_)
         IN  IF ~inside /\ build = "assertions"
             THEN [st EXCEPT !.aborted = TRUE, !.outOfBounds = TRUE]
             ELSE ObservabilityLoop(sys,
                      [st EXCEPT !.O = StorageWrite(@, i * STATE_DIM, 0, product),
                                 !.written = @ \cup StorageTargets(st.O, i * STATE_DIM, 0, product),
                                 !.outOfBounds = @ \/ ~inside],
                      i + 1, build)

\* computeObservabilityMatrix(O) in the given build
computeObservabilityMatrix(sys, O, build) ==
    ObservabilityLoop(sys,
        [O |-> SetBlock(O, 0, 0, sys.C_), written |-> Entries(sys.C_),
         aborted |-> FALSE, outOfBounds |-> FALSE], 1, build)

\* the values the coefficients that were never assigned may hold
Garbage == {0, 1}

\* the matrices that M may be read as when only the coefficients in written
\* were assigned: each of the others holds some value
ReadAs(M, written) ==
    LET unset == Entries(M) \ written
    IN  { Tup([r \in 1..Rows(M) |-> Tup([c \in 1..Cols(M) |->
              IF <<r, c>> \in unset THEN g[<<r, c>>] ELSE M[r][c]], Cols(M))], Rows(M)) :
          g \in [unset -> Garbage] }

\* isObservable() in the given build: whether it aborted, and the values it
\* may return
isObservable(sys, build) ==
    LET c == computeObservabilityMatrix(sys,
                 UninitializedMat(STATE_DIM, STATE_DIM * STATE_DIM), build)
    IN  [ aborted |-> c.aborted, outOfBounds |-> c.outOfBounds,
          values |-> IF c.aborted THEN {}
                     ELSE {FullPivLURank(M) = STATE_DIM : M \in ReadAs(c.O, c.written)} ]

\* (CG_prev - CG).lpNorm<1>(): Eigen's coefficient-wise norm, the sum of the
\* absolute values of all coefficients
lpNorm1(M) ==
    SumTo(Tup([r \in 1..Rows(M) |->
                 SumTo(Tup([c \in 1..Cols(M) |-> Abs(M[r][c])], Cols(M)), Cols(M))], Rows(M)),
          Rows(M))

\* the while loop of computeControllabilityGramian, from n_iters on; `body`
\* counts the executions of the loop body
RECURSIVE ControllabilityGramianLoop(_, _, _, _, _, _)
ControllabilityGramianLoop(sys, CG_prev, A_prev, n_iters, max_iters, tolerance) ==
    IF n_iters < max_iters
    THEN LET CG == MatAdd(CG_prev,
                      MatMul(MatMul(MatMul(A_prev, sys.B_), Transpose(sys.B_)), Transpose(A_prev)))
             norm1 == lpNorm1(MatSub(CG_prev, CG))
         IN  IF norm1 < tolerance
             THEN [value |-> CG, body |-> n_iters + 1]
             ELSE ControllabilityGramianLoop(sys, CG, MatMul(A_prev, sys.A_), n_iters + 1,
                                             max_iters, tolerance)
    ELSE [value |-> CG_prev, body |-> n_iters]

\* computeControllabilityGramian(max_iters, tolerance): the overload the
\* template parameter CONT_T selects
computeControllabilityGramian(sys, max_iters, tolerance) ==
    IF sys.CONT_T = "DISCRETE_TIME"
    THEN ControllabilityGramianLoop(sys, ZeroMat(STATE_DIM, STATE_DIM), IdentityMat(STATE_DIM),
                                    0, max_iters, tolerance) @@ [thrown |-> "none"]
    ELSE [value |-> noValue, body |-> 0, thrown |-> "runtime_error"]

RECURSIVE ObservabilityGramianLoop(_, _, _, _, _, _)
ObservabilityGramianLoop(sys, OG_prev, A_prev, n_iters, max_iters, tolerance) ==
    IF n_iters < max_iters
    THEN LET OG == MatAdd(OG_prev,
                      MatMul(MatMul(MatMul(Transpose(A_prev), Transpose(sys.C_)), sys.C_), A_prev))
             norm1 == lpNorm1(MatSub(OG_prev, OG))
         IN  IF norm1 < tolerance
             THEN [value |-> OG, body |-> n_iters + 1]
             ELSE ObservabilityGramianLoop(sys, OG, MatMul(A_prev, sys.A_), n_iters + 1,
                                           max_iters, tolerance)
    ELSE [value |-> OG_prev, body |-> n_iters]

computeObservabilityGramian(sys, max_iters, tolerance) ==
    IF sys.CONT_T = "DISCRETE_TIME"
    THEN ObservabilityGramianLoop(sys, ZeroMat(STATE_DIM, STATE_DIM), IdentityMat(STATE_DIM),
                                  0, max_iters, tolerance) @@ [thrown |-> "none"]
    ELSE [value |-> noValue, body |-> 0, thrown |-> "runtime_error"]

\* a computeOutput that evaluates the commented-out y = C*x + D*u
computeOutput_evaluated(sys, state, control) ==
    [thrown |-> "none", value |-> VAdd(MatVec(sys.C_, state), MatVec(sys.D_, control))]

\* computeOutput: throw std::runtime_error("... not ported to manifolds yet.")
computeOutput(sys, state, control) ==
    [thrown |-> "runtime_error", value |-> noValue]

(***************************************************************************)
(* The problems a caller hands to setProblem.  A problem of horizon N      *)
(* holds N+1 nominal states, N controls, N dynamics and N+1 cost stages.   *)
(***************************************************************************)
InitialStates == {<<1, 0>>, <<-1, 2>>}

\* a double integrator around a nominal trajectory that starts at x0
NominalProblem(N, x0) ==
    [ numberOfStages |-> N,
      x_ |-> [i \in 0..N |-> IF i = 0 THEN x0 ELSE <<i, 1>>],
      u_ |-> [i \in 0..(N - 1) |-> <<1>>],
      A_ |-> [i \in 0..(N - 1) |-> <<<<1, 1>>, <<0, 1>>>>],
      B_ |-> [i \in 0..(N - 1) |-> <<<<0>>, <<1>>>>],
      b_ |-> [i \in 0..(N - 1) |-> <<0, 0>>],
      P_ |-> [i \in 0..(N - 1) |-> <<<<0, 1>>>>],
      qv_ |-> [i \in 0..N |-> <<0, 0>>],
      Q_ |-> [i \in 0..N |-> IdentityMat(state_dim)],
      rv_ |-> [i \in 0..(N - 1) |-> <<0>>],
      R_ |-> [i \in 0..(N - 1) |-> <<<<1>>>>] ]

\* a problem whose getNumberOfStages() is the value the solver keeps for
\* "horizon not set"
UnsetProblem == NominalProblem(-1, <<0, 0>>)

SolverProblems ==
    {NominalProblem(N, x0) : N \in 1..MaxN, x0 \in InitialStates} \cup {UnsetProblem}

(***************************************************************************)
(* State.                                                                  *)
(*   solver : the HPIPMInterface object                                    *)
(*   lti    : the LTISystem object                                         *)
(*   input  : the problem whose transcription is examined                  *)
(*   ret    : how the last call ended and what it returned                 *)
(*   trace  : the problem of the last setProblem call and whether solve()  *)
(*            was called since (history, not program state)                *)
(***************************************************************************)
VARIABLES solver, lti, input, ret, trace

vars == <<solver, lti, input, ret, trace>>

\* how a call ended: it returned, an exception left it, or the process died
Outcome(op, outcome, error, value, kernel, configured) ==
    [ op |-> op, args |-> noValue, outcome |-> outcome, error |-> error, value |-> value,
      kernel |-> kernel, configured |-> configured, body |-> 0 ]

\* the outcome of a call on the LTI system: its arguments, what left it, and
\* how often its loop body ran
SystemOutcome(op, args, thrown, value, body) ==
    [ op |-> op, args |-> args, outcome |-> IF thrown = "none" THEN "returned" ELSE "threw",
      error |-> thrown, value |-> value, kernel |-> FALSE, configured |-> FALSE, body |-> body ]

Returned(op, value) == Outcome(op, "returned", "none", value, FALSE, FALSE)

Threw(op, error) == Outcome(op, "threw", error, noValue, FALSE, FALSE)

\* no call can be made on a process that has crashed
Running == ret.outcome # "crashed"

NoSystem == <<"no system">>

NoInput == <<"no input">>

InitSolver ==
    /\ solver = Constructed
    /\ ret = Returned("HPIPMInterface", noValue)
    /\ trace = [set |-> FALSE, p |-> noValue, solved |-> FALSE]

Init ==
    /\ InitSolver
    /\ lti = NoSystem
    /\ input = NoInput

(***************************************************************************)
(* The calls on the solver.                                                *)
(***************************************************************************)
\* setProblem(p): setProblemImpl always runs the horizon configuration
SetProblem(p) ==
    /\ Running
    /\ LET r == setProblem(solver, p)
       IN  /\ solver' = r.state
           /\ ret' = Outcome("setProblem",
                             IF r.thrown = "none" THEN "returned" ELSE "threw",
                             r.thrown, noValue, FALSE, TRUE)
    /\ trace' = [set |-> TRUE, p |-> p, solved |-> FALSE]
    /\ UNCHANGED <<lti, input>>

\* solve(): no condition is tested before the two kernel calls.  On an
\* instance whose qp_ was never created they work on an uninitialized
\* structure: the process dies, or the kernel returns having written
\* wherever that structure pointed
Solve ==
    /\ Running
    /\ IF solver.qp_.created
       THEN LET qp == d_cvt_colmaj_to_ocp_qp(solver)
            IN  \E run \in d_solve_ipm2_hard_ocp_qp(qp, solver.workspace_) :
                   /\ solver' = [solver EXCEPT !.qp_ = qp, !.qp_sol_ = run.sol,
                                                !.workspace_ = run.workspace]
                   /\ ret' = Outcome("solve", "returned", "none", noValue, TRUE, FALSE)
       ELSE /\ solver' = solver
            /\ \E o \in {"crashed", "returned"} :
                   ret' = Outcome("solve", o, "none", noValue, TRUE, FALSE)
    /\ trace' = [trace EXCEPT !.solved = trace.set]
    /\ UNCHANGED <<lti, input>>

\* getSolutionState(): on an instance never configured, the conversion
\* reads an uninitialized structure and hx_[0] is written in an empty array
GetSolutionState ==
    /\ Running
    /\ IF solver.qp_sol_.created
       THEN LET r == getSolutionState(solver)
            IN  /\ solver' = r.state
                /\ ret' = Returned("getSolutionState", r.value)
       ELSE /\ solver' = solver
            /\ \E o \in {"crashed", "returned"} :
                   ret' = Outcome("getSolutionState", o, "none", uninitialized, FALSE, FALSE)
    /\ UNCHANGED <<lti, input, trace>>

GetSolutionControl ==
    /\ Running
    /\ IF solver.qp_sol_.created
       THEN LET r == getSolutionControl(solver)
            IN  /\ solver' = r.state
                /\ ret' = Returned("getSolutionControl", r.value)
       ELSE /\ solver' = solver
            /\ \E o \in {"crashed", "returned"} :
                   ret' = Outcome("getSolutionControl", o, "none", uninitialized, FALSE, FALSE)
    /\ UNCHANGED <<lti, input, trace>>

GetFeedback ==
    /\ Running
    /\ LET r == getFeedback(solver)
       IN  /\ solver' = r.state
           /\ ret' = Outcome("getFeedback",
                             IF r.thrown = "none" THEN "returned" ELSE "threw",
                             r.thrown, r.value, FALSE, FALSE)
    /\ UNCHANGED <<lti, input, trace>>

NextSolver ==
    \/ \E p \in SolverProblems : SetProblem(p)
    \/ Solve
    \/ GetSolutionState
    \/ GetSolutionControl
    \/ GetFeedback

Next == NextSolver

(***************************************************************************)
(* The LTI systems that are examined, and the calls on them.  No call      *)
(* assigns a member: A_, B_, C_, D_ stay as constructed.                   *)
(***************************************************************************)
\* largest max_iters handed to the Gramian functions, and the tolerances
MaxIters == 3

Tolerances == {1, 2}

Coeffs == {-1, 0, 1}

AMatrices == {<<<<a, b>>, <<c, d>>>> : a \in {0, 1}, b \in Coeffs, c \in {0, 1}, d \in {0, 1}}

BMatrices == { IdentityMat(STATE_DIM), <<<<1, 0>>, <<0, 0>>>>, <<<<0, 0>>, <<0, 1>>>>,
               <<<<1, -1>>, <<1, -1>>>> }

CMatrices == { IdentityMat(STATE_DIM), <<<<0, 1>>, <<0, 0>>>> }

\* LTISystem(A, B, C, D = Zero)
LTISystem(A, B, C, T) ==
    [A_ |-> A, B_ |-> B, C_ |-> C, D_ |-> ZeroMat(STATE_DIM, CONTROL_DIM), CONT_T |-> T]

\* the pairs of B and C: every B with C = Identity (the constructor's
\* default), and the other C with B = Identity
BCPairs ==
    {<<B, IdentityMat(STATE_DIM)>> : B \in BMatrices}
    \cup {<<IdentityMat(STATE_DIM), C>> : C \in CMatrices}

\* every discrete-time system, and the continuous-time systems of two A
Systems ==
    {LTISystem(A, bc[1], bc[2], "DISCRETE_TIME") : A \in AMatrices, bc \in BCPairs}
    \cup {LTISystem(A, bc[1], bc[2], "CONTINUOUS_TIME") :
              A \in {ZeroMat(STATE_DIM, STATE_DIM), <<<<1, 1>>, <<0, 1>>>>}, bc \in BCPairs}

ComputeOutput(state, control) ==
    /\ Running
    /\ LET r == computeOutput(lti, state, control)
       IN  ret' = SystemOutcome("computeOutput", <<state, control>>, r.thrown, r.value, 0)
    /\ UNCHANGED <<solver, lti, input, trace>>

ComputeControllabilityMatrix ==
    /\ Running
    /\ ret' = SystemOutcome("computeControllabilityMatrix", noValue, "none",
                  computeControllabilityMatrix(lti,
                      UninitializedMat(STATE_DIM, STATE_DIM * CONTROL_DIM)), 0)
    /\ UNCHANGED <<solver, lti, input, trace>>

IsControllable ==
    /\ Running
    /\ ret' = SystemOutcome("isControllable", noValue, "none", isControllable(lti), 0)
    /\ UNCHANGED <<solver, lti, input, trace>>

ComputeControllabilityGramian(max_iters, tolerance) ==
    /\ Running
    /\ LET r == computeControllabilityGramian(lti, max_iters, tolerance)
       IN  ret' = SystemOutcome("computeControllabilityGramian", <<max_iters, tolerance>>,
                                r.thrown, r.value, r.body)
    /\ UNCHANGED <<solver, lti, input, trace>>

ComputeObservabilityGramian(max_iters, tolerance) ==
    /\ Running
    /\ LET r == computeObservabilityGramian(lti, max_iters, tolerance)
       IN  ret' = SystemOutcome("computeObservabilityGramian", <<max_iters, tolerance>>,
                                r.thrown, r.value, r.body)
    /\ UNCHANGED <<solver, lti, input, trace>>

\* the outcome of a call that Eigen's assertion aborted
Aborted(op) ==
    [SystemOutcome(op, TRUE, "none", noValue, 0) EXCEPT !.outcome = "crashed"]

ComputeObservabilityMatrix ==
    /\ Running
    /\ \E build \in Builds :
          LET c == computeObservabilityMatrix(lti,
                       UninitializedMat(STATE_DIM, STATE_DIM * STATE_DIM), build)
          IN  IF c.aborted THEN ret' = Aborted("computeObservabilityMatrix")
              ELSE \E M \in ReadAs(c.O, c.written) :
                      ret' = SystemOutcome("computeObservabilityMatrix", c.outOfBounds,
                                           "none", M, 0)
    /\ UNCHANGED <<solver, lti, input, trace>>

IsObservable ==
    /\ Running
    /\ \E build \in Builds :
          LET r == isObservable(lti, build)
          IN  IF r.aborted THEN ret' = Aborted("isObservable")
              ELSE \E v \in r.values :
                      ret' = SystemOutcome("isObservable", r.outOfBounds, "none", v, 0)
    /\ UNCHANGED <<solver, lti, input, trace>>

NextSystem ==
    \/ ComputeOutput(<<1, 0>>, <<0, 1>>)
    \/ ComputeControllabilityMatrix
    \/ IsControllable
    \/ ComputeObservabilityMatrix
    \/ IsObservable
    \/ \E m \in 0..MaxIters, t \in Tolerances : ComputeControllabilityGramian(m, t)
    \/ \E m \in 0..MaxIters, t \in Tolerances : ComputeObservabilityGramian(m, t)

InitSystem ==
    /\ solver = Constructed
    /\ ret = Returned("LTISystem", noValue)
    /\ trace = [set |-> FALSE, p |-> noValue, solved |-> FALSE]
    /\ input = NoInput
    /\ lti \in Systems

SpecLTI == InitSystem /\ [][NextSystem]_vars

(***************************************************************************)
(* A solver and an LTI system side by side: the calls on both, for the     *)
(* shortest horizon and for four systems.                                  *)
(***************************************************************************)
SideBySideSystems ==
    {LTISystem(A, IdentityMat(STATE_DIM), IdentityMat(STATE_DIM), T) :
        A \in {ZeroMat(STATE_DIM, STATE_DIM), <<<<1, 1>>, <<0, 1>>>>},
        T \in {"DISCRETE_TIME", "CONTINUOUS_TIME"}}

\* the problems handed to the solver: the shortest horizon
SideBySideProblems == {NominalProblem(1, x0) : x0 \in InitialStates}

InitSideBySide ==
    /\ InitSolver
    /\ input = NoInput
    /\ lti \in SideBySideSystems

NextSideBySide ==
    \/ \E p \in SideBySideProblems : SetProblem(p)
    \/ Solve
    \/ GetSolutionState
    \/ GetSolutionControl
    \/ GetFeedback
    \/ ComputeOutput(<<1, 0>>, <<0, 1>>)
    \/ IsControllable
    \/ ComputeControllabilityGramian(MaxIters, 1)
    \/ ComputeObservabilityGramian(MaxIters, 1)

SpecSideBySide == InitSideBySide /\ [][NextSideBySide]_vars

Spec == Init /\ [][Next]_vars

(***************************************************************************)
(* The problems whose transcription is examined: every stage draws its     *)
(* nominal state and control, and either its dynamics or its cost, from    *)
(* the sets below; the other part is the one of NominalProblem.            *)
(***************************************************************************)
NominalStates == {<<1, 0>>, <<1, 1>>}

NominalControls == {<<0>>, <<1>>}

DynamicsStages ==
    { [A |-> <<<<1, 1>>, <<0, 1>>>>, B |-> <<<<0>>, <<1>>>>, b |-> <<0, 0>>],
      [A |-> <<<<0, 1>>, <<-1, 0>>>>, B |-> <<<<1>>, <<0>>>>, b |-> <<0, 0>>],
      [A |-> <<<<1, 1>>, <<0, 1>>>>, B |-> <<<<0>>, <<1>>>>, b |-> <<0, 1>>] }

CostStages ==
    { [Q |-> <<<<1, 0>>, <<0, 1>>>>, P |-> <<<<0, 1>>>>, R |-> <<<<1>>>>, qv |-> <<0, 0>>, rv |-> <<0>>],
      [Q |-> <<<<2, 1>>, <<1, 2>>>>, P |-> <<<<1, -1>>>>, R |-> <<<<2>>>>, qv |-> <<1, -1>>, rv |-> <<1>>],
      [Q |-> <<<<2, 1>>, <<1, 2>>>>, P |-> <<<<0, 0>>>>, R |-> <<<<1>>>>, qv |-> <<0, 0>>, rv |-> <<1>>] }

DynamicsProblems ==
    UNION { { [NominalProblem(N, <<0, 0>>) EXCEPT
                  !.x_ = x, !.u_ = u,
                  !.A_ = [i \in 0..(N - 1) |-> d[i].A],
                  !.B_ = [i \in 0..(N - 1) |-> d[i].B],
                  !.b_ = [i \in 0..(N - 1) |-> d[i].b]] :
              x \in [0..N -> NominalStates], u \in [0..(N - 1) -> NominalControls],
              d \in [0..(N - 1) -> DynamicsStages] } : N \in 1..MaxStages }

CostProblems ==
    UNION { { [NominalProblem(N, <<0, 0>>) EXCEPT
                  !.x_ = x, !.u_ = u,
                  !.Q_ = [i \in 0..N |-> c[i].Q],
                  !.qv_ = [i \in 0..N |-> c[i].qv],
                  !.P_ = [i \in 0..(N - 1) |-> c[i].P],
                  !.R_ = [i \in 0..(N - 1) |-> c[i].R],
                  !.rv_ = [i \in 0..(N - 1) |-> c[i].rv]] :
              x \in [0..N -> NominalStates], u \in [0..(N - 1) -> NominalControls],
              c \in [0..N -> CostStages] } : N \in 1..MaxStages }

InitTranscription ==
    /\ InitSolver
    /\ lti = NoSystem
    /\ input \in DynamicsProblems \cup CostProblems

\* the caller hands its problem to the solver
NextTranscription == SetProblem(input)

SpecTranscription == InitTranscription /\ [][NextTranscription]_vars

(***************************************************************************)
(* Properties of the transcription, checked under SpecTranscription.       *)
(***************************************************************************)
\* what entry i of a pointer array handed to the kernel points at
Handed(array, i) == Deref(solver, solver[array][i])

\* setProblem(p) has returned; p is the problem the solver holds
Transcribed == trace.set /\ ret.op = "setProblem" /\ ret.outcome = "returned"

\* b_i + x_(i+1) - A_i*x_i - B_i*u_i
GenericOffset(p, i) ==
    VSub(VAdd(p.b_[i], p.x_[i + 1]), VAdd(MatVec(p.A_[i], p.x_[i]), MatVec(p.B_[i], p.u_[i])))

\* b_i = 0 and x_(i+1) = A_i*x_i + B_i*u_i for all i in 0..N-1
SatisfiesDynamics(p) ==
    \A i \in Stages(p) :
        /\ p.b_[i] = ZeroVec(state_dim)
        /\ p.x_[i + 1] = VAdd(MatVec(p.A_[i], p.x_[i]), MatVec(p.B_[i], p.u_[i]))

\* C2, as claimed: when the nominal trajectory satisfies the dynamics, every
\* dynamics offset of the transcription, stage 0 included, is zero.
C2_AllOffsetsZero ==
    (Transcribed /\ SatisfiesDynamics(trace.p)) =>
        \A i \in Stages(trace.p) : Handed("hb_", i) = ZeroVec(state_dim)

\* C2, amended: when the nominal trajectory satisfies the dynamics, the
\* dynamics offset of every stage 1..N-1 is zero, and the one of stage 0 is
\* A_0*x_0.
C2_OffsetsZeroAfterFirst ==
    (Transcribed /\ SatisfiesDynamics(trace.p)) =>
        /\ \A i \in Stages(trace.p) \ {0} : Handed("hb_", i) = ZeroVec(state_dim)
        /\ Handed("hb_", 0) = MatVec(trace.p.A_[0], trace.p.x_[0])

\* a transcribed problem of the longest horizon whose trajectory satisfies
\* the dynamics, with a control that acts after stage 0 and A_0*x_0 # 0
C2_Witness ==
    /\ Transcribed
    /\ SatisfiesDynamics(trace.p)
    /\ trace.p.numberOfStages = MaxStages
    /\ trace.p.u_[MaxStages - 1] # ZeroVec(control_dim)
    /\ MatVec(trace.p.A_[0], trace.p.x_[0]) # ZeroVec(state_dim)

\* C3: the dynamics offset handed to the kernel is b_i + x_(i+1) - A_i*x_i -
\* B_i*u_i for every stage 1..N-1 and b_0 + x_1 - B_0*u_0 for stage 0: the
\* special value, not the generic one the loop computed for i = 0.
C3_DynamicsOffsets ==
    Transcribed =>
        /\ \A i \in Stages(trace.p) \ {0} : Handed("hb_", i) = GenericOffset(trace.p, i)
        /\ Handed("hb_", 0) =
              VSub(VAdd(trace.p.b_[0], trace.p.x_[1]), MatVec(trace.p.B_[0], trace.p.u_[0]))

\* a transcribed problem of the longest horizon in which the generic and the
\* special value of stage 0 differ, and the last stage has an offset
C3_Witness ==
    /\ Transcribed
    /\ trace.p.numberOfStages = MaxStages
    /\ MatVec(trace.p.A_[0], trace.p.x_[0]) # ZeroVec(state_dim)
    /\ solver.bEigen_[0] # Handed("hb_", 0)
    /\ Handed("hb_", MaxStages - 1) # ZeroVec(state_dim)

\* r_i - R_i*u_i - S_i*x_i
GenericControlGradient(p, i) ==
    VSub(p.rv_[i], VAdd(MatVec(p.R_[i], p.u_[i]), MatVec(p.P_[i], p.x_[i])))

\* C4: the gradient offsets handed to the kernel are
\*   q_abs_i = q_i - Q_i*x_i - S_i^T*u_i for i in 0..N-1,
\*   q_abs_N = q_N - Q_N*x_N, with S_N, R_N and r_N null,
\*   r_abs_i = r_i - R_i*u_i - S_i*x_i for i in 1..N-1,
\*   r_abs_0 = (r_0 - R_0*u_0 - S_0*x_0) + S_0*x_0;
\* the correction S_0*x_0 goes to stage 0 only.
C4_GradientOffsets ==
    Transcribed =>
        LET p == trace.p
            N == p.numberOfStages
        IN  /\ \A i \in Stages(p) :
                  Handed("hq_", i) =
                      VSub(p.qv_[i], VAdd(MatVec(p.Q_[i], p.x_[i]),
                                          MatVec(Transpose(p.P_[i]), p.u_[i])))
            /\ Handed("hq_", N) = VSub(p.qv_[N], MatVec(p.Q_[N], p.x_[N]))
            /\ solver.hS_[N] = nullptr /\ solver.hR_[N] = nullptr /\ solver.hr_[N] = nullptr
            /\ \A i \in Stages(p) \ {0} : Handed("hr_", i) = GenericControlGradient(p, i)
            /\ Handed("hr_", 0) =
                  VAdd(GenericControlGradient(p, 0), MatVec(p.P_[0], p.x_[0]))

\* a transcribed problem of the longest horizon whose correction S_0*x_0 is
\* not zero and whose stage 1 has a nonzero S_1*x_1 that is not added
C4_Witness ==
    /\ Transcribed
    /\ trace.p.numberOfStages = MaxStages
    /\ MatVec(trace.p.P_[0], trace.p.x_[0]) # ZeroVec(control_dim)
    /\ MatVec(trace.p.P_[1], trace.p.x_[1]) # ZeroVec(control_dim)
    /\ MatVec(Transpose(trace.p.P_[0]), trace.p.u_[0]) # ZeroVec(state_dim)

(***************************************************************************)
(* Properties of the solver, checked under Spec.                           *)
(***************************************************************************)
\* the problem of the last setProblem call was valid (N >= 1) and solve()
\* was called after it; only getters and getFeedback were called since
SolvedLast == trace.set /\ trace.solved /\ trace.p.numberOfStages >= 1

\* C1: after setProblem(p), solve() and any calls of getSolutionState and
\* getSolutionControl in any order, getSolutionState returns N+1 states, the
\* one of stage 0 being exactly p's x0, and getSolutionControl returns N
\* controls, for the stages 0..N-1: none for the terminal stage N.
C1_SolutionShape ==
    (SolvedLast /\ ret.outcome = "returned") =>
        /\ ret.op = "getSolutionState" =>
              /\ DOMAIN ret.value = 0..trace.p.numberOfStages
              /\ ret.value[0] = trace.p.x_[0]
        /\ ret.op = "getSolutionControl" =>
              DOMAIN ret.value = 0..(trace.p.numberOfStages - 1)

\* getSolutionState returned after a solve of a problem of the longest
\* horizon whose x0 no iterate of the kernel holds, and the conversion had
\* written the kernel's iterate into the other stages and into the controls
C1_Witness ==
    /\ SolvedLast
    /\ ret.op = "getSolutionState"
    /\ trace.p.numberOfStages = MaxN
    /\ trace.p.x_[0] = <<-1, 2>>
    /\ ret.value[MaxN] \in SolStates
    /\ solver.hu_[MaxN - 1] \in SolControls

\* C5: a solve() on an instance whose horizon is unset (N_ = -1), and a
\* problem setup that finds the horizon unset, fail with an error, and the
\* solve kernel is not run by that call.
C5_UnsetHorizonRejected ==
    [][ /\ (solver.N_ = -1 /\ ret'.op = "solve") =>
               (ret'.outcome = "threw" /\ ~ret'.kernel)
        /\ (ret'.op = "setProblem" /\ trace'.p.numberOfStages = -1) =>
               (ret'.outcome = "threw" /\ ~ret'.kernel) ]_vars

\* C6: a setProblem that fails leaves the solver as it was before the call:
\* horizon, dimension vectors, sizes and contents of the buffers.
C6_FailedSetupKeepsState ==
    [][ (ret'.op = "setProblem" /\ ret'.outcome = "threw") => solver' = solver ]_vars

\* C7: on a solver configured for a horizon N >= 1, the horizon
\* configuration runs only in a setProblem whose horizon differs from the
\* configured one; a setProblem with the same horizon and every solve()
\* leave the storage as it is.
C7_ConfiguredOnlyOnChange ==
    [][ (ret'.configured /\ solver.N_ >= 1) =>
           (ret'.op = "setProblem" /\ trace'.p.numberOfStages # solver.N_) ]_vars

(***************************************************************************)
(* Properties of the LTI system, checked under SpecLTI.                    *)
(***************************************************************************)
RECURSIVE MatPow(_, _)
MatPow(A, j) == IF j = 0 THEN IdentityMat(Rows(A)) ELSE MatMul(MatPow(A, j - 1), A)

\* the determinant, by expansion along the first row
RECURSIVE Det(_)
Det(M) ==
    IF Rows(M) = 1 THEN M[1][1]
    ELSE LET n == Rows(M) - 1
             Minor(c) == Tup([r \in 1..n |-> Tup([k \in 1..n |->
                             M[r + 1][IF k < c THEN k ELSE k + 1]], n)], n)
         IN  SumTo(Tup([c \in 1..Rows(M) |->
                       (IF c % 2 = 1 THEN 1 ELSE -1) * M[1][c] * Det(Minor(c))], Rows(M)), Rows(M))

\* a real matrix W has full row rank exactly if W * W^T is invertible
FullRowRank(W) == Det(MatMul(W, Transpose(W))) # 0

\* [B, A*B, ..., A^(n-1)*B], the blocks side by side
KalmanMatrix(sys) ==
    LET blk == Tup([i \in 1..STATE_DIM |-> MatMul(MatPow(sys.A_, i - 1), sys.B_)], STATE_DIM)
    IN  Tup([r \in 1..STATE_DIM |-> Tup([c \in 1..(STATE_DIM * CONTROL_DIM) |->
                blk[((c - 1) \div CONTROL_DIM) + 1][r][((c - 1) % CONTROL_DIM) + 1]],
                STATE_DIM * CONTROL_DIM)], STATE_DIM)

\* C10: computeControllabilityMatrix fills block column i, i in 0..n-1, with
\* A^i * B, and isControllable() is true exactly if that matrix has rank n:
\* true for A = 0 and B = identity, false for an upper block-triangular A
\* whose B reaches only the invariant subspace of the first coordinate.
C10_Controllability ==
    /\ ret.op = "computeControllabilityMatrix" =>
          \A i \in 0..(STATE_DIM - 1) :
              Block(ret.value, 0, i * CONTROL_DIM, STATE_DIM, CONTROL_DIM)
                  = MatMul(MatPow(lti.A_, i), lti.B_)
    /\ ret.op = "isControllable" =>
          /\ ret.value = FullRowRank(KalmanMatrix(lti))
          /\ (lti.A_ = ZeroMat(STATE_DIM, STATE_DIM) /\ lti.B_ = IdentityMat(STATE_DIM))
                => ret.value = TRUE
          /\ (lti.A_[2][1] = 0 /\ lti.B_[2] = ZeroVec(CONTROL_DIM)) => ret.value = FALSE

\* isControllable() returned true for a system whose B alone has rank 1: the
\* block A*B supplied the missing direction
C10_Witness ==
    /\ ret.op = "isControllable"
    /\ ret.value = TRUE
    /\ lti.B_ = <<<<0, 0>>, <<0, 1>>>>
    /\ lti.A_[1][2] # 0

\* the matrix 1-norm: the largest absolute column sum
MatrixOneNorm(M) ==
    LET colsum(c) == SumTo(Tup([r \in 1..Rows(M) |-> Abs(M[r][c])], Rows(M)), Rows(M))
    IN  CHOOSE v \in {colsum(c) : c \in 1..Cols(M)} :
            \A c \in 1..Cols(M) : v >= colsum(c)

\* G_k = sum over j in 0..k-1 of A^j * B * B^T * (A^j)^T
RECURSIVE ControllabilitySum(_, _)
ControllabilitySum(sys, k) ==
    IF k = 0 THEN ZeroMat(STATE_DIM, STATE_DIM)
    ELSE MatAdd(ControllabilitySum(sys, k - 1),
                MatMul(MatMul(MatMul(MatPow(sys.A_, k - 1), sys.B_), Transpose(sys.B_)),
                       Transpose(MatPow(sys.A_, k - 1))))

\* the same with the term (A^j)^T * C^T * C * A^j
RECURSIVE ObservabilitySum(_, _)
ObservabilitySum(sys, k) ==
    IF k = 0 THEN ZeroMat(STATE_DIM, STATE_DIM)
    ELSE MatAdd(ObservabilitySum(sys, k - 1),
                MatMul(MatMul(MatMul(Transpose(MatPow(sys.A_, k - 1)), Transpose(sys.C_)), sys.C_),
                       MatPow(sys.A_, k - 1)))

\* the smallest k >= 1 whose increment G(k) - G(k-1) has a norm below tol,
\* or maxIters if no k <= maxIters has
StoppingIndex(G(_), Norm(_), maxIters, tol) ==
    LET hits == {k \in 1..maxIters : Norm(MatSub(G(k), G(k - 1))) < tol}
    IN  IF hits = {} THEN maxIters ELSE CHOOSE k \in hits : \A j \in hits : k <= j

GramianRule(Norm(_)) ==
    /\ (ret.op = "computeControllabilityGramian" /\ ret.outcome = "returned") =>
          LET G(k) == ControllabilitySum(lti, k)
          IN  /\ ret.value = G(StoppingIndex(G, Norm, ret.args[1], ret.args[2]))
              /\ ret.body <= ret.args[1]
    /\ (ret.op = "computeObservabilityGramian" /\ ret.outcome = "returned") =>
          LET G(k) == ObservabilitySum(lti, k)
          IN  /\ ret.value = G(StoppingIndex(G, Norm, ret.args[1], ret.args[2]))
              /\ ret.body <= ret.args[1]

\* C9: for a discrete-time system computeControllabilityGramian(maxIters, tol)
\* returns G_K, K the smallest k >= 1 with the matrix 1-norm of G_k - G_(k-1)
\* below tol, or maxIters if there is none (the zero matrix for maxIters = 0);
\* the loop body runs at most maxIters times; computeObservabilityGramian
\* likewise with the term (A^j)^T * C^T * C * A^j.
C9_GramianStopsOnMatrixOneNorm == GramianRule(MatrixOneNorm)

\* the same rule with the norm the code evaluates, the sum of the absolute
\* values of all coefficients
GramianStopsOnCoefficientNorm == GramianRule(lpNorm1)

(***************************************************************************)
(* The unsupported operations, checked under SpecSideBySide.               *)
(***************************************************************************)
\* the call that has just ended is one of the unsupported operations
Unsupported(r, sys) ==
    \/ r.op = "getFeedback"
    \/ r.op = "computeOutput"
    \/ /\ r.op \in {"computeControllabilityGramian", "computeObservabilityGramian"}
       /\ sys.CONT_T = "CONTINUOUS_TIME"

StackedObservability(sys) ==
    LET blk == Tup([i \in 1..STATE_DIM |-> MatMul(sys.C_, MatPow(sys.A_, i - 1))], STATE_DIM)
    IN  Tup([r \in 1..(STATE_DIM * STATE_DIM) |->
                blk[((r - 1) \div STATE_DIM) + 1][((r - 1) % STATE_DIM) + 1]],
            STATE_DIM * STATE_DIM)

\* a real matrix W has full column rank exactly if W^T * W is invertible
FullColumnRank(W) == Det(MatMul(Transpose(W), W)) # 0

\* C11: computeObservabilityMatrix returns with block i of the matrix it was
\* given, i in 0..n-1, equal to C * A^i, no block having been written or read
\* outside the bounds of that matrix, and isObservable() returns true exactly
\* if [C; C*A; ...; C*A^(n-1)] has rank n.
C11_Observability ==
    /\ ret.op = "computeObservabilityMatrix" =>
          /\ ret.outcome = "returned"
          /\ ret.args = FALSE
          /\ \A i \in 0..(STATE_DIM - 1) :
                Block(ret.value, 0, i * STATE_DIM, STATE_DIM, STATE_DIM)
                    = MatMul(lti.C_, MatPow(lti.A_, i))
    /\ ret.op = "isObservable" =>
          /\ ret.outcome = "returned"
          /\ ret.args = FALSE
          /\ ret.value = FullColumnRank(StackedObservability(lti))

\* the part of C11 that does not depend on the build: a call of
\* computeObservabilityMatrix or isObservable either is aborted or has
\* written a block outside the bounds of the matrix
ObservabilityLeavesBounds ==
    ret.op \in {"computeObservabilityMatrix", "isObservable"} =>
        (ret.outcome = "crashed" \/ ret.args = TRUE)

\* isObservable() returned false for a system that is observable
ObservableReportedUnobservable ==
    /\ ret.op = "isObservable"
    /\ ret.outcome = "returned"
    /\ ret.value = FALSE
    /\ FullColumnRank(StackedObservability(lti))

(***************************************************************************)
(* The iteration cap of solve(), checked under Spec.                       *)
(***************************************************************************)
\* the last call was a solve() on a solver that holds a problem
SolveEnded == ret.op = "solve" /\ solver.qp_.created

\* the kernel stopped at the cap with the residual above mu_max
CapReached ==
    /\ solver.workspace_.iter = solver.workspace_.iter_max
    /\ ~solver.workspace_.converged

\* C12: a solve() on a solver that holds a problem returns normally after at
\* most iter_max iterations, and when the cap was reached before the
\* tolerance was met, the call reports that it did not converge.
C12_NonConvergenceReported ==
    SolveEnded =>
        /\ ret.outcome = "returned"
        /\ solver.workspace_.iter <= iter_max
        /\ CapReached => ret.value # noValue

\* the part of C12 that holds: solve() returns normally, the kernel having
\* run at most iter_max iterations, and qp_sol_ holds the last iterate
SolveStaysWithinCap ==
    SolveEnded =>
        /\ ret.outcome = "returned"
        /\ solver.workspace_.iter <= iter_max
        /\ solver.qp_sol_.solved

\* solve() ended at the cap without convergence
SolveEndedAtCap == SolveEnded /\ CapReached

(***************************************************************************)
(* The dimension vectors, checked under Spec.                              *)
(***************************************************************************)
\* C13: after any sequence of setProblem calls, N being the horizon of the
\* last one, the dimension vectors have N+1 entries, nx_[0] = 0 and
\* nx_[i] = STATE_DIM for i in 1..N, nu_[N] = 0 and nu_[i] = CONTROL_DIM for
\* i in 0..N-1, and nb_[i] = ng_[i] = 0 for every i.
C13_DimensionVectors ==
    solver.N_ >= 1 =>
        LET N == solver.N_
        IN  /\ \A v \in {solver.nx_, solver.nu_, solver.nb_, solver.ng_} : DOMAIN v = 0..N
            /\ solver.nx_[0] = 0
            /\ \A i \in 1..N : solver.nx_[i] = state_dim
            /\ solver.nu_[N] = 0
            /\ \A i \in 0..(N - 1) : solver.nu_[i] = control_dim
            /\ \A i \in 0..N : solver.nb_[i] = 0 /\ solver.ng_[i] = 0

\* the part of C13 that holds: the lengths, nx_, nb_, ng_, and the last
\* entry of nu_
DimensionVectorsButInteriorControls ==
    solver.N_ >= 1 =>
        LET N == solver.N_
        IN  /\ \A v \in {solver.nx_, solver.nu_, solver.nb_, solver.ng_} : DOMAIN v = 0..N
            /\ solver.nx_[0] = 0
            /\ \A i \in 1..N : solver.nx_[i] = state_dim
            /\ solver.nu_[N] = 0
            /\ \A i \in 0..(N - 1) : solver.nu_[i] \in {0, control_dim}
            /\ \A i \in 0..N : solver.nb_[i] = 0 /\ solver.ng_[i] = 0

====
